---- MODULE Spec2Model ----
(***************************************************************************)
(* Command-line minesweeper (src/minesweeper.py): the Board object         *)
(* (hazard placement, adjacency counts, recursive dig) and the play loop.  *)
(***************************************************************************)
EXTENDS Integers, Sequences, FiniteSets, TLC

\* ---------------------------------------------------------------- bounds
\* Largest num_bombs a game is played with.
MaxBombs == 2
\* Number of iterations of the play loop that are explored.
MaxTurns == 2

\* How far outside the valid range num_bombs is taken when only a Board
\* is constructed: -MaxExcess .. dimension_size^2 + MaxExcess.
MaxExcess == 1

\* The dimension_size values a game is played with.  3 is the smallest
\* grid on which a count-0 cell, a numbered cell and a bomb coexist.
PlayDims == 1 .. 3
\* The dimension_size values a Board is constructed with, the invalid ones
\* (0 and negative) included.
BuildDims == -1 .. 3

\* ------------------------------------------------------ cell encodings
\* board[r][c] holds "*" for a bomb, None before the counts are assigned,
\* and an int 0..8 afterwards.  "*" and None are encoded as negative ints
\* so that the comparisons of the source (== "*", > 0) stay comparisons.
STAR == -1
NONE == -2

VARIABLES
    dimension_size,  \* Board.dimension_size
    num_bombs,       \* Board.num_bombs
    board,           \* Board.board, board[r][c]
    bombs_planted,   \* local of make_new_board
    loc,             \* local of make_new_board: the last random draw
    dug,             \* Board.dug
    safe,            \* local of play
    row,             \* local of play: last input row
    col,             \* local of play: last input col
    pc,              \* position: "make_new_board", "play", "break",
                     \*           "won", "lost", "raised"
    exc,             \* the uncaught exception when pc = "raised"
    turns,           \* iterations of the play loop so far
    prev_dug,        \* history: Board.dug before the last iteration's dig
    calls,           \* history: the cells dig ran on in the last iteration
    depth,           \* history: deepest nesting of dig in the last iteration
    collided,        \* history: the last iteration of make_new_board took
                     \*          the continue
    screen,          \* visible_board of the last print(board)
    wl,              \* what the worklist flood fills (stack or queue,
                     \* either order of the neighbours) make of the last dig
    fresh_digs       \* history: iterations that dug an in-range, undug cell

vars == <<dimension_size, num_bombs, board, bombs_planted, loc, dug, safe,
          row, col, pc, exc, turns, prev_dug, calls, depth, collided, screen,
          wl, fresh_digs>>

\* ------------------------------------------------------ python helpers
max(a, b) == IF a >= b THEN a ELSE b
min(a, b) == IF a <= b THEN a ELSE b

\* range(a, b): a, a+1, ..., b-1
range(a, b) == a .. (b - 1)

\* list[i] on a list of length n: valid for -n <= i < n, negative i counts
\* from the end; anything else raises IndexError.
IndexOK(i, n) == (-n <= i) /\ (i < n)
Norm(i, n) == IF i < 0 THEN i + n ELSE i

\* [[None for _ in range(n)] for _ in range(n)]
EmptyBoard(n) == [r \in range(0, n) |-> [c \in range(0, n) |-> NONE]]

\* all (r, c) with r, c in range(n)
Cells(n) == range(0, n) \X range(0, n)

\* ------------------------------------------- get_num_neighboring_bombs
\* Variant: the row range stops one short (the "+ 1" of range() forgotten).
get_num_neighboring_bombs_NoPlusOne(b, n, r0, c0) ==
    Cardinality({rc \in range(max(0, r0 - 1), min(n - 1, r0 + 1))
                        \X range(max(0, c0 - 1), min(n - 1, c0 + 1) + 1) :
                    /\ ~(rc[1] = r0 /\ rc[2] = c0)
                    /\ b[rc[1]][rc[2]] = STAR})

get_num_neighboring_bombs(b, n, r0, c0) ==
    Cardinality({rc \in range(max(0, r0 - 1), min(n - 1, r0 + 1) + 1)
                        \X range(max(0, c0 - 1), min(n - 1, c0 + 1) + 1) :
                    /\ ~(rc[1] = r0 /\ rc[2] = c0)
                    /\ b[rc[1]][rc[2]] = STAR})

\* ---------------------------------------------- assign_values_to_board
\* The source assigns in place while it scans; the scan only tests cells
\* for "*", and "*" cells are never overwritten, so every count is the
\* count over the board as planted.
assign_values_to_board(b, n) ==
    [r \in range(0, n) |->
        [c \in range(0, n) |->
            IF b[r][c] = STAR THEN b[r][c]
            ELSE get_num_neighboring_bombs(b, n, r, c)]]

\* ------------------------------------------------------------------ dig
\* Variant: the column range stops one short.
NeighborSeq_NoPlusOne(n, r0, c0) ==
    LET rlo == max(0, r0 - 1)
        rhi == min(n - 1, r0 + 1)
        clo == max(0, c0 - 1)
        chi == min(n - 1, c0 + 1) - 1
        nr  == IF rhi >= rlo THEN rhi - rlo + 1 ELSE 0
        nc  == IF chi >= clo THEN chi - clo + 1 ELSE 0
    IN  [i \in 1 .. (nr * nc) |->
            <<rlo + ((i - 1) \div nc), clo + ((i - 1) % nc)>>]

\* The cells visited by the two nested for loops of dig, in loop order.
NeighborSeq(n, r0, c0) ==
    LET rlo == max(0, r0 - 1)
        rhi == min(n - 1, r0 + 1)
        clo == max(0, c0 - 1)
        chi == min(n - 1, c0 + 1)
        nr  == IF rhi >= rlo THEN rhi - rlo + 1 ELSE 0
        nc  == IF chi >= clo THEN chi - clo + 1 ELSE 0
    IN  [i \in 1 .. (nr * nc) |->
            <<rlo + ((i - 1) \div nc), clo + ((i - 1) % nc)>>]

RECURSIVE dig(_, _, _, _, _)
RECURSIVE digLoop(_, _, _, _)

\* Variant: a neighbour is marked dug without dig being called on it.
digLoop_Shallow(b, n, acc, todo) ==
    IF todo = <<>> THEN acc
    ELSE IF Head(todo) \in acc.dug
         THEN digLoop(b, n, acc, Tail(todo))
         ELSE digLoop(b, n,
                      [acc EXCEPT !.dug = acc.dug \cup {Head(todo)},
                                  !.calls = Append(acc.calls, Head(todo)),
                                  !.depth = max(acc.depth, 2)],
                      Tail(todo))

\* The two for loops of dig over the cells `todo` still to visit, `acc`
\* being the state of the call so far.  A cell already in the dug set is
\* skipped; the return value of the recursive call is dropped, as in the
\* source.
digLoop(b, n, acc, todo) ==
    IF todo = <<>> THEN acc
    ELSE IF Head(todo) \in acc.dug
         THEN digLoop(b, n, acc, Tail(todo))
         ELSE LET sub == dig(b, n, acc.dug, Head(todo)[1], Head(todo)[2])
              IN  digLoop(b, n,
                          [acc EXCEPT !.dug = sub.dug,
                                      !.calls = acc.calls \o sub.calls,
                                      !.depth = max(acc.depth, 1 + sub.depth)],
                          Tail(todo))

\* Variant: a dug bomb does not return early, the loops run for it too.
dig_HazardCascades(b, n, d, r0, c0) ==
    LET d1 == d \cup {<<r0, c0>>}
        base == [dug |-> d1, ret |-> TRUE, raised |-> FALSE,
                 calls |-> <<<<r0, c0>>>>, depth |-> 1]
    IN  IF ~(IndexOK(r0, n) /\ IndexOK(c0, n))
        THEN [base EXCEPT !.raised = TRUE]
        ELSE LET v == b[Norm(r0, n)][Norm(c0, n)]
             IN  IF v = STAR
                 THEN digLoop(b, n, [base EXCEPT !.ret = FALSE],
                              NeighborSeq(n, r0, c0))
                 ELSE IF v > 0 THEN base
                 ELSE digLoop(b, n, base, NeighborSeq(n, r0, c0))

\* Variant: "> 1" for "> 0", a cell with one bomb around it cascades.
dig_CountOneCascades(b, n, d, r0, c0) ==
    LET d1 == d \cup {<<r0, c0>>}
        base == [dug |-> d1, ret |-> TRUE, raised |-> FALSE,
                 calls |-> <<<<r0, c0>>>>, depth |-> 1]
    IN  IF ~(IndexOK(r0, n) /\ IndexOK(c0, n))
        THEN [base EXCEPT !.raised = TRUE]
        ELSE LET v == b[Norm(r0, n)][Norm(c0, n)]
             IN  IF v = STAR THEN [base EXCEPT !.ret = FALSE]
                 ELSE IF v > 1 THEN base
                 ELSE digLoop(b, n, base, NeighborSeq(n, r0, c0))

\* Variant: ">= 0" for "> 0", no cell cascades.
dig_NoCascade(b, n, d, r0, c0) ==
    LET d1 == d \cup {<<r0, c0>>}
        base == [dug |-> d1, ret |-> TRUE, raised |-> FALSE,
                 calls |-> <<<<r0, c0>>>>, depth |-> 1]
    IN  IF ~(IndexOK(r0, n) /\ IndexOK(c0, n))
        THEN [base EXCEPT !.raised = TRUE]
        ELSE LET v == b[Norm(r0, n)][Norm(c0, n)]
             IN  IF v = STAR THEN [base EXCEPT !.ret = FALSE]
                 ELSE IF v >= 0 THEN base
                 ELSE digLoop(b, n, base, NeighborSeq(n, r0, c0))

\* Variant: a cell with a count above 0 is not added to the dug set.
dig_NumberedNotAdded(b, n, d, r0, c0) ==
    LET d1 == d \cup {<<r0, c0>>}
        base == [dug |-> d1, ret |-> TRUE, raised |-> FALSE,
                 calls |-> <<<<r0, c0>>>>, depth |-> 1]
    IN  IF ~(IndexOK(r0, n) /\ IndexOK(c0, n))
        THEN [base EXCEPT !.raised = TRUE]
        ELSE LET v == b[Norm(r0, n)][Norm(c0, n)]
             IN  IF v = STAR THEN [base EXCEPT !.ret = FALSE]
                 ELSE IF v > 0 THEN [base EXCEPT !.dug = d]
                 ELSE digLoop(b, n, base, NeighborSeq(n, r0, c0))

\* dig(row, col) on the board b with the dug set d.  The result carries
\*   dug    the dug set when the call ends,
\*   ret    the value returned (TRUE / FALSE),
\*   raised TRUE when board[row][col] raised IndexError,
\*   calls  the cells dig was invoked on, in call order (this call first),
\*   depth  the deepest nesting of dig calls, this call counting 1.
dig(b, n, d, r0, c0) ==
    LET d1 == d \cup {<<r0, c0>>}
        base == [dug |-> d1, ret |-> TRUE, raised |-> FALSE,
                 calls |-> <<<<r0, c0>>>>, depth |-> 1]
    IN  IF ~(IndexOK(r0, n) /\ IndexOK(c0, n))
        THEN [base EXCEPT !.raised = TRUE]
        ELSE LET v == b[Norm(r0, n)][Norm(c0, n)]
             IN  IF v = STAR THEN [base EXCEPT !.ret = FALSE]
                 ELSE IF v > 0 THEN base
                 ELSE digLoop(b, n, base, NeighborSeq(n, r0, c0))

\* -------------------------------------------------------- Board.__str__
\* str() of what a cell of Board.board holds.
Digit == <<"0", "1", "2", "3", "4", "5", "6", "7", "8", "9">>

RECURSIVE str(_)
str(v) ==
    IF v = STAR THEN "*"
    ELSE IF v = NONE THEN "None"
    ELSE IF v < 10 THEN Digit[v + 1]
    ELSE str(v \div 10) \o Digit[(v % 10) + 1]

\* Variant: the test for (row, col) in self.dug is missing.
visible_board_ShowsAll(b, n, d) ==
    [r \in range(0, n) |-> [c \in range(0, n) |-> str(b[r][c])]]

\* The array __str__ builds of what the player sees.
visible_board(b, n, d) ==
    [r \in range(0, n) |->
        [c \in range(0, n) |->
            IF <<r, c>> \in d THEN str(b[r][c]) ELSE " "]]

\* __str__ on the Board (b, d): the array it formats into the table, and
\* board and dug as the call leaves them.  The table itself (column widths,
\* separators) is text built from `visible` alone.
Board_str(b, n, d) ==
    [visible |-> visible_board(b, n, d), board |-> b, dug |-> d]

\* ------------------------------------------------- worklist flood fill
\* The flood fill with an explicit worklist in place of the recursion:
\* `pending` holds the cells still to reveal, taken from the end (a stack)
\* when lifo, from the front (a queue) otherwise; the cells around a
\* count-0 cell are added in loop order, or in reverse when rev.
Reverse(q) == [i \in 1 .. Len(q) |-> q[Len(q) + 1 - i]]

RECURSIVE worklist(_, _, _, _, _, _)
worklist(b, n, d, pending, lifo, rev) ==
    IF pending = <<>> THEN d
    ELSE LET x    == IF lifo THEN pending[Len(pending)] ELSE Head(pending)
             rest == IF lifo THEN SubSeq(pending, 1, Len(pending) - 1)
                     ELSE Tail(pending)
         IN  IF x \in d THEN worklist(b, n, d, rest, lifo, rev)
             ELSE LET around == NeighborSeq(n, x[1], x[2])
                      more == IF rev THEN Reverse(around) ELSE around
                  IN  worklist(b, n, d \cup {x},
                               IF b[x[1]][x[2]] = 0 THEN rest \o more
                               ELSE rest,
                               lifo, rev)

\* dig with the worklist in place of its two loops.
dig_worklist(b, n, d, r0, c0, lifo, rev) ==
    LET d1 == d \cup {<<r0, c0>>}
        base == [dug |-> d1, ret |-> TRUE, raised |-> FALSE]
    IN  IF ~(IndexOK(r0, n) /\ IndexOK(c0, n))
        THEN [base EXCEPT !.raised = TRUE]
        ELSE LET v == b[Norm(r0, n)][Norm(c0, n)]
                 around == NeighborSeq(n, r0, c0)
             IN  IF v = STAR THEN [base EXCEPT !.ret = FALSE]
                 ELSE IF v > 0 THEN base
                 ELSE [base EXCEPT !.dug =
                          worklist(b, n, d1,
                                   IF rev THEN Reverse(around) ELSE around,
                                   lifo, rev)]

\* ------------------------------------------------------- Board.__init__
\* Variant: the test for a bomb already planted is missing.
PlantBomb_NoCollisionCheck ==
    /\ pc = "make_new_board"
    /\ bombs_planted < num_bombs
    /\ dimension_size > 0
    /\ \E l \in 0 .. (dimension_size * dimension_size - 1) :
          LET r == l \div dimension_size
              c == l % dimension_size
          IN  /\ IndexOK(r, dimension_size) /\ IndexOK(c, dimension_size)
              /\ board' = [board EXCEPT ![r][c] = STAR]
              /\ bombs_planted' = bombs_planted + 1
              /\ loc' = l
    /\ collided' = FALSE
    /\ UNCHANGED <<dimension_size, num_bombs, dug, safe, row, col, pc, exc,
                   turns, prev_dug, calls, depth, wl, fresh_digs, screen>>

\* One iteration of the while loop of make_new_board that plants a bomb.
PlantBomb ==
    /\ pc = "make_new_board"
    /\ bombs_planted < num_bombs
    /\ dimension_size > 0
    /\ \E l \in 0 .. (dimension_size * dimension_size - 1) :
          LET r == l \div dimension_size
              c == l % dimension_size
          IN  /\ IndexOK(r, dimension_size) /\ IndexOK(c, dimension_size)
              /\ board[r][c] # STAR
              /\ board' = [board EXCEPT ![r][c] = STAR]
              /\ bombs_planted' = bombs_planted + 1
              /\ loc' = l
    /\ collided' = FALSE
    /\ UNCHANGED <<dimension_size, num_bombs, dug, safe, row, col, pc, exc,
                   turns, prev_dug, calls, depth, wl, fresh_digs, screen>>

\* Variant: a colliding draw is counted as a bomb planted.
PlantCollision_Counts ==
    /\ pc = "make_new_board"
    /\ bombs_planted < num_bombs
    /\ dimension_size > 0
    /\ \E l \in 0 .. (dimension_size * dimension_size - 1) :
          LET r == l \div dimension_size
              c == l % dimension_size
          IN  /\ IndexOK(r, dimension_size) /\ IndexOK(c, dimension_size)
              /\ board[r][c] = STAR
              /\ loc' = l
    /\ collided' = TRUE
    /\ bombs_planted' = bombs_planted + 1
    /\ UNCHANGED <<dimension_size, num_bombs, board, dug, safe,
                   row, col, pc, exc, turns, prev_dug, calls, depth, wl,
                   fresh_digs, screen>>

\* One iteration that draws a cell already holding a bomb: continue.
PlantCollision ==
    /\ pc = "make_new_board"
    /\ bombs_planted < num_bombs
    /\ dimension_size > 0
    /\ \E l \in 0 .. (dimension_size * dimension_size - 1) :
          LET r == l \div dimension_size
              c == l % dimension_size
          IN  /\ IndexOK(r, dimension_size) /\ IndexOK(c, dimension_size)
              /\ board[r][c] = STAR
              /\ loc' = l
    /\ collided' = TRUE
    /\ UNCHANGED <<dimension_size, num_bombs, board, bombs_planted, dug, safe,
                   row, col, pc, exc, turns, prev_dug, calls, depth, wl,
                   fresh_digs, screen>>

\* One iteration that raises: random.randint(0, -1) raises ValueError when
\* dimension_size = 0; with a negative dimension_size the board is [] and
\* board[row] raises IndexError.
PlantRaises ==
    /\ pc = "make_new_board"
    /\ bombs_planted < num_bombs
    /\ dimension_size <= 0
    /\ pc' = "raised"
    /\ exc' = IF dimension_size * dimension_size - 1 < 0
              THEN "ValueError" ELSE "IndexError"
    /\ UNCHANGED <<dimension_size, num_bombs, board, bombs_planted, loc, dug,
                   safe, row, col, turns, prev_dug, calls, depth, wl,
                   fresh_digs, screen, collided>>

\* The loop of make_new_board ends; assign_values_to_board; dug = set();
\* back in play, safe = True.
InitDone ==
    /\ pc = "make_new_board"
    /\ ~(bombs_planted < num_bombs)
    /\ board' = assign_values_to_board(board, dimension_size)
    /\ dug' = {}
    /\ safe' = TRUE
    /\ pc' = "play"
    /\ collided' = FALSE
    /\ UNCHANGED <<dimension_size, num_bombs, bombs_planted, loc, row, col,
                   exc, turns, prev_dug, calls, depth, wl, fresh_digs, screen>>

\* ----------------------------------------------------------------- play
\* The row and col values a player types (one beyond the grid each way).
Coords(n) == -1 .. n

\* The test of play for an input outside the grid.
invalid_location(r, c, n) == r < 0 \/ r >= n \/ c < 0 \/ c >= n

\* One iteration of the while loop of play: print(board); read row, col;
\* print "Invalid location" when out of range (nothing else happens
\* there); dig; break when a bomb was dug.
Turn ==
    /\ pc = "play"
    /\ Cardinality(dug) < dimension_size * dimension_size - num_bombs
    /\ turns < MaxTurns
    /\ \E p \in {Board_str(board, dimension_size, dug)} :
       \E r \in Coords(dimension_size), c \in Coords(dimension_size) :
       \E res \in {dig(p.board, dimension_size, p.dug, r, c)} :
              /\ screen' = p.visible
              /\ board' = p.board
              /\ row' = r
              /\ col' = c
              /\ prev_dug' = p.dug
              /\ dug' = res.dug
              /\ calls' = res.calls
              /\ depth' = res.depth
              /\ wl' = {dig_worklist(p.board, dimension_size, p.dug, r, c,
                                     lifo, rev) :
                           lifo \in BOOLEAN, rev \in BOOLEAN}
              /\ fresh_digs' =
                    IF ~invalid_location(r, c, dimension_size)
                       /\ <<r, c>> \notin p.dug
                    THEN fresh_digs + 1 ELSE fresh_digs
              /\ IF res.raised
                 THEN /\ pc' = "raised"
                      /\ exc' = "IndexError"
                      /\ safe' = safe
                 ELSE /\ safe' = res.ret
                      /\ pc' = IF res.ret THEN "play" ELSE "break"
                      /\ exc' = exc
    /\ turns' = turns + 1
    /\ UNCHANGED <<dimension_size, num_bombs, bombs_planted, loc, collided>>

\* Variant: the loss banner shows the bombs only.
GameEnd_ShowBombsOnly ==
    /\ \/ pc = "break"
       \/ /\ pc = "play"
          /\ ~(Cardinality(dug) < dimension_size * dimension_size - num_bombs)
    /\ IF safe
       THEN /\ pc' = "won"
            /\ UNCHANGED <<dug, screen, board>>
       ELSE LET p == Board_str(board, dimension_size,
                               {x \in Cells(dimension_size) :
                                   board[x[1]][x[2]] = STAR})
            IN  /\ pc' = "lost"
                /\ dug' = p.dug
                /\ screen' = p.visible
                /\ board' = p.board
    /\ UNCHANGED <<dimension_size, num_bombs, bombs_planted, loc, safe,
                   row, col, exc, turns, prev_dug, calls, depth, wl,
                   fresh_digs, collided>>

\* Variant: every cell is shown after a win as well.
GameEnd_RevealAlways ==
    /\ \/ pc = "break"
       \/ /\ pc = "play"
          /\ ~(Cardinality(dug) < dimension_size * dimension_size - num_bombs)
    /\ LET p == Board_str(board, dimension_size, Cells(dimension_size))
       IN  /\ pc' = IF safe THEN "won" ELSE "lost"
           /\ dug' = p.dug
           /\ screen' = p.visible
           /\ board' = p.board
    /\ UNCHANGED <<dimension_size, num_bombs, bombs_planted, loc, safe,
                   row, col, exc, turns, prev_dug, calls, depth, wl,
                   fresh_digs, collided>>

\* After the loop: the win banner, or the loss banner, Board.dug replaced
\* by the list of all cells, and print(board).
GameEnd ==
    /\ \/ pc = "break"
       \/ /\ pc = "play"
          /\ ~(Cardinality(dug) < dimension_size * dimension_size - num_bombs)
    /\ IF safe
       THEN /\ pc' = "won"
            /\ UNCHANGED <<dug, screen, board>>
       ELSE LET p == Board_str(board, dimension_size, Cells(dimension_size))
            IN  /\ pc' = "lost"
                /\ dug' = p.dug
                /\ screen' = p.visible
                /\ board' = p.board
    /\ UNCHANGED <<dimension_size, num_bombs, bombs_planted, loc, safe,
                   row, col, exc, turns, prev_dug, calls, depth, wl,
                   fresh_digs, collided>>

\* --------------------------------------------------------- specifications
InitWith(dims, lo, hi) ==
    /\ dimension_size \in dims
    /\ num_bombs \in lo .. hi
    /\ board = EmptyBoard(dimension_size)
    /\ bombs_planted = 0
    /\ loc = 0
    /\ dug = {}
    /\ safe = TRUE
    /\ row = 0
    /\ col = 0
    /\ pc = "make_new_board"
    /\ exc = "none"
    /\ turns = 0
    /\ prev_dug = {}
    /\ calls = <<>>
    /\ depth = 0
    /\ collided = FALSE
    /\ screen = <<>>
    /\ wl = {}
    /\ fresh_digs = 0

\* play(dimension_size, num_bombs) for the small configurations.
Init == InitWith(PlayDims, 0, MaxBombs)

Next == PlantBomb \/ PlantCollision \/ InitDone \/ Turn \/ GameEnd

Spec == Init /\ [][Next]_vars

\* Board(dimension_size, num_bombs) alone, for every configuration, the
\* invalid ones included.
InitBuild ==
    /\ InitWith(BuildDims, -MaxExcess, 3 * 3 + MaxExcess)
    /\ num_bombs <= dimension_size * dimension_size + MaxExcess

NextBuild == PlantBomb \/ PlantCollision \/ PlantRaises \/ InitDone

SpecBuild == InitBuild /\ [][NextBuild]_vars

\* Board(...) with a fair random source: while a free cell is left its
\* index is drawn at some point (every index is drawn again and again, so
\* a draw that plants cannot be put off for ever), and the constructor
\* goes on once its loop condition is false.
SpecBuildFair ==
    /\ SpecBuild
    /\ WF_vars(PlantBomb)
    /\ WF_vars(InitDone)

\* ======================================================== properties
\* Vocabulary of the properties, stated without the loops of the source.
InBounds(r, c) ==
    /\ 0 <= r /\ r < dimension_size
    /\ 0 <= c /\ c < dimension_size

Abs(x) == IF x < 0 THEN -x ELSE x

\* b is one of the up to eight cells around a.
Adjacent(a, b) ==
    /\ a # b
    /\ Abs(a[1] - b[1]) <= 1
    /\ Abs(a[2] - b[2]) <= 1

Hazards == {x \in Cells(dimension_size) : board[x[1]][x[2]] = STAR}
NonHazards == Cells(dimension_size) \ Hazards
HazardsAround(x) == {y \in Hazards : Adjacent(x, y)}

ValidConfiguration ==
    /\ dimension_size >= 1
    /\ 0 <= num_bombs
    /\ num_bombs < dimension_size * dimension_size

Constructed == pc \notin {"make_new_board", "raised"} \/ (pc = "raised" /\ turns > 0)

\* C6: for every valid (dimension_size, num_bombs) the constructed board
\* holds exactly num_bombs bombs, each planted once, and nothing is dug.
C6_ExactHazardCount ==
    (pc = "play" /\ turns = 0 /\ ValidConfiguration)
        => /\ Cardinality(Hazards) = num_bombs
           /\ bombs_planted = num_bombs
           /\ dug = {}

C6_Witness ==
    /\ pc = "play" /\ turns = 0
    /\ dimension_size = 3
    /\ num_bombs = 8
    /\ Cardinality(Hazards) = 8

\* C7: once the board is constructed every cell that is no bomb holds the
\* number of bombs among the cells around it (grid edges cut the
\* neighbourhood, the cell itself does not count), a number in 0..8, and
\* every planted bomb still holds its marker.
C7_AdjacencyCounts ==
    Constructed =>
        /\ \A x \in NonHazards :
              /\ board[x[1]][x[2]] = Cardinality(HazardsAround(x))
              /\ board[x[1]][x[2]] \in 0 .. 8
        /\ Cardinality(Hazards) = bombs_planted

C7_Witness ==
    /\ pc = "play"
    /\ dimension_size = 3
    /\ board[1][1] = 8
    /\ board[0][0] = STAR

\* C10: a Board asked for with dimension_size < 1, or with num_bombs
\* outside 0 <= num_bombs < dimension_size^2, is never handed to the
\* caller.
C10_InvalidConfigurationRejected ==
    ~ValidConfiguration => pc # "play"

\* ------------------------------------------------ properties of a game
\* The least set that holds the cells of S and, with every count-0 cell,
\* the cells around it.
RECURSIVE CascadeClosure(_)
CascadeClosure(S) ==
    LET T == S \cup {y \in Cells(dimension_size) :
                        \E x \in S : /\ board[x[1]][x[2]] = 0
                                     /\ Adjacent(x, y)}
    IN  IF T = S THEN S ELSE CascadeClosure(T)

\* A dig has run and its result is still what Board.dug holds (the loss
\* banner replaces Board.dug by the list of all cells).
AfterDig == turns > 0 /\ pc # "lost"

\* The outcome names of the interface, as far as dig tells them apart:
\* it returns True or False and nothing else.
LastOutcome == IF safe THEN "Revealed" ELSE "HitHazard"

IsWon == (NonHazards \subseteq dug) /\ (Hazards \cap dug = {})

\* C1: a dig on a count-0 cell, from a dug set that in-bounds digs on
\* non-bombs produced, leaves exactly the old dug set plus the cascade
\* closure of the cell: nothing outside it is revealed and nothing of it
\* stays hidden.
C1_CascadeIsClosure ==
    (/\ AfterDig
     /\ InBounds(row, col)
     /\ board[row][col] = 0
     /\ prev_dug \subseteq NonHazards)
        => /\ dug = prev_dug \cup CascadeClosure({<<row, col>>})
           /\ safe

\* 3x3, one bomb at (2,2), (1,1) dug before: dig(0,0) reveals every cell
\* but (2,2) and the game is won.
C1_Witness ==
    /\ pc = "won"
    /\ dimension_size = 3
    /\ Hazards = {<<2, 2>>}
    /\ prev_dug = {<<1, 1>>}
    /\ row = 0 /\ col = 0
    /\ dug = Cells(3) \ {<<2, 2>>}

\* C2: the win is declared exactly when every cell that is no bomb is
\* revealed and no bomb is: a game declared won is in that state, and a
\* running game in that state leaves the loop.
C2_WinIffAllSafeRevealed ==
    /\ pc = "won" => IsWon
    /\ (pc = "play" /\ IsWon)
          => ~(Cardinality(dug) < dimension_size * dimension_size - num_bombs)

\* C3: an input outside 0..dimension_size-1 changes nothing: the dug set
\* is what it was and dig ran on no cell.
C3_OutOfBoundsMutatesNothing ==
    (AfterDig /\ ~InBounds(row, col))
        => /\ dug = prev_dug
           /\ calls = <<>>

\* C4 as amended: a dig on an in-bounds cell that is already dug returns
\* what the first dig of that cell returns (True, False for a bomb), runs
\* on no other cell and leaves the dug set as it was.
C4_RedigChangesNothing ==
    (AfterDig /\ InBounds(row, col) /\ <<row, col>> \in prev_dug)
        => /\ dug = prev_dug
           /\ calls = <<<<row, col>>>>
           /\ safe = (board[row][col] # STAR)

C4_Witness ==
    /\ AfterDig
    /\ InBounds(row, col)
    /\ <<row, col>> \in prev_dug
    /\ board[row][col] = 0
    /\ Cardinality(prev_dug) > 1
    /\ pc = "play"

\* C4 as stated: the second dig of a cell reports an outcome of its own,
\* AlreadyRevealed, distinct from Revealed, and changes nothing.
C4_RedigReportsAlreadyRevealed ==
    (AfterDig /\ InBounds(row, col) /\ <<row, col>> \in prev_dug)
        => /\ dug = prev_dug
           /\ calls = <<<<row, col>>>>
           /\ LastOutcome # "Revealed"

\* C5: a dig on an in-bounds bomb returns False, adds that cell to the
\* dug set and no other, and runs on no other cell.
C5_HazardDigRevealsOnlyHazard ==
    (AfterDig /\ InBounds(row, col) /\ board[row][col] = STAR)
        => /\ ~safe
           /\ pc = "break"
           /\ dug = prev_dug \cup {<<row, col>>}
           /\ calls = <<<<row, col>>>>

C5_Witness ==
    /\ pc = "break"
    /\ InBounds(row, col)
    /\ board[row][col] = STAR
    /\ prev_dug # {}
    /\ <<row, col>> \notin prev_dug
    /\ \E y \in NonHazards \ dug : Adjacent(<<row, col>>, y)

\* C8: a dig on an in-bounds cell that is not dug, is no bomb and has a
\* count above 0 returns True and reveals that cell only.
C8_NumberedDigRevealsOneCell ==
    (/\ AfterDig
     /\ InBounds(row, col)
     /\ board[row][col] > 0
     /\ <<row, col>> \notin prev_dug)
        => /\ safe
           /\ dug = prev_dug \cup {<<row, col>>}
           /\ dug # prev_dug
           /\ calls = <<<<row, col>>>>

C8_Witness ==
    /\ pc = "play"
    /\ turns = 2
    /\ InBounds(row, col)
    /\ board[row][col] = 1
    /\ <<row, col>> \notin prev_dug
    /\ prev_dug # {}
    /\ \E y \in NonHazards \ dug : Adjacent(<<row, col>>, y)

\* C9: on a board without bombs the first dig of any in-bounds cell ends
\* with every cell dug, so the loop is left and the game is won.
C9_ZeroHazardsOneDigWins ==
    (AfterDig /\ num_bombs = 0 /\ turns = 1 /\ InBounds(row, col))
        => /\ dug = Cells(dimension_size)
           /\ safe
           /\ pc \in {"play", "won"}
           /\ ~(Cardinality(dug) < dimension_size * dimension_size - num_bombs)

C9_Witness ==
    /\ pc = "won"
    /\ num_bombs = 0
    /\ dimension_size = 3
    /\ turns = 1
    /\ row = 2 /\ col = 0
    /\ dug = Cells(3)

\* ------------------------------------ properties of the steps of a game
\* The cells of the grid that are revealed: Board.dug without the tuples
\* that are no cells.
Revealed(d) == d \cap Cells(dimension_size)

CallSet(q) == {q[i] : i \in 1 .. Len(q)}

\* C11: no step removes a cell from the revealed set: not a dig, not one
\* of the recursive digs of a cascade (each adds the cell it is called on
\* and nothing else, so the dug set after the k-th call is the old set
\* plus the first k cells of `calls`), not the reveal of every cell after
\* a loss.
C11_RevealedSetGrows ==
    [][/\ Revealed(dug) \subseteq Revealed(dug')
       /\ (turns' = turns + 1) => (dug' = dug \cup CallSet(calls'))]_vars

C11_Witness ==
    /\ pc = "lost"
    /\ turns = 2
    /\ prev_dug \subseteq Cells(dimension_size)
    /\ Cardinality(prev_dug) > 1
    /\ dug = Cells(dimension_size)

\* C12: the loss is declared exactly when a bomb is revealed: a running or
\* won game has no bomb revealed, and a game that left the loop by break
\* did so on the dig of a bomb cell, the first bomb to be revealed.
C12_LossIffHazardRevealed ==
    /\ pc \in {"play", "won"} => Hazards \cap dug = {}
    /\ pc \in {"break", "lost"}
          => /\ ~safe
             /\ InBounds(row, col)
             /\ board[row][col] = STAR
             /\ Hazards \cap prev_dug = {}

\* The symbol of the snapshot for each cell, given the board b and the
\* revealed set d.
ShownAsClaimed(scr, b, d) ==
    \A x \in Cells(dimension_size) :
        scr[x[1]][x[2]] =
            IF x \notin d THEN " "
            ELSE IF b[x[1]][x[2]] = STAR THEN "*"
            ELSE CASE b[x[1]][x[2]] = 0 -> "0" [] b[x[1]][x[2]] = 1 -> "1"
                   [] b[x[1]][x[2]] = 2 -> "2" [] b[x[1]][x[2]] = 3 -> "3"
                   [] b[x[1]][x[2]] = 4 -> "4" [] b[x[1]][x[2]] = 5 -> "5"
                   [] b[x[1]][x[2]] = 6 -> "6" [] b[x[1]][x[2]] = 7 -> "7"
                   [] b[x[1]][x[2]] = 8 -> "8"

\* C13: print(board) changes neither the board nor the dug set, and shows
\* a blank for a cell that is not dug (whatever it holds), "*" for a dug
\* bomb and the count for any other dug cell: in an iteration of the loop
\* the dig starts from the board and dug set as they were, and after a
\* loss the dug set is still the list of all cells.
C13_SnapshotReadOnly ==
    [][/\ (turns' = turns + 1)
            => /\ board' = board
               /\ prev_dug' = dug
               /\ ShownAsClaimed(screen', board, dug)
       /\ (pc' = "lost" /\ pc # "lost")
            => /\ board' = board
               /\ dug' = Cells(dimension_size)
               /\ ShownAsClaimed(screen', board, Cells(dimension_size))]_vars

C13_Witness ==
    /\ pc = "play"
    /\ turns = 2
    /\ \E x \in Hazards : screen[x[1]][x[2]] = " "
    /\ \E y \in Revealed(prev_dug) : screen[y[1]][y[2]] = "1"
    /\ \E z \in NonHazards \ prev_dug : screen[z[1]][z[2]] = " "

\* C14: a dig on an in-bounds cell that is no bomb returns True, calls dig
\* on no bomb and adds no bomb to the dug set.
C14_CascadeNeverRevealsHazard ==
    (AfterDig /\ InBounds(row, col) /\ board[row][col] # STAR)
        => /\ safe
           /\ CallSet(calls) \cap Hazards = {}
           /\ (dug \ prev_dug) \cap Hazards = {}

C14_Witness ==
    /\ pc = "play"
    /\ InBounds(row, col)
    /\ board[row][col] = 0
    /\ Len(calls) > 3
    /\ \E h \in Hazards : \E y \in CallSet(calls) : Adjacent(h, y)
    /\ dug # NonHazards

\* C15: every dig ends, calls dig on no cell twice and only on cells that
\* were not dug, so on no more cells than were not dug, and never nests
\* deeper than dimension_size^2.
C15_DigBounded ==
    AfterDig
        => /\ \A i, j \in 1 .. Len(calls) : (i # j) => (calls[i] # calls[j])
           /\ \A i \in 2 .. Len(calls) : calls[i] \notin prev_dug
           /\ Len(calls) - 1
                 <= Cardinality(Cells(dimension_size) \ prev_dug)
           /\ depth <= dimension_size * dimension_size

\* C16: between digs every revealed count-0 cell has all the cells around
\* it revealed.
C16_ClosureInvariant ==
    Constructed
        => \A x \in Revealed(dug) :
              (board[x[1]][x[2]] = 0)
                  => \A y \in Cells(dimension_size) :
                        Adjacent(x, y) => y \in dug

C16_Witness ==
    /\ pc = "play"
    /\ turns = 2
    /\ dug \subseteq NonHazards
    /\ dug # NonHazards
    /\ \E x \in prev_dug : board[x[1]][x[2]] = 0
    /\ board[row][col] > 0
    /\ <<row, col>> \notin prev_dug

\* C17: the worklist flood fill, as a stack or as a queue and with the
\* neighbours taken in either order, ends with the dug set and the return
\* value of the recursive dig.
C17_WorklistEquivalent ==
    AfterDig
        => /\ wl # {}
           /\ \A w \in wl :
                 /\ w.dug = dug
                 /\ w.raised = (pc = "raised")
                 /\ (~w.raised) => (w.ret = safe)

C17_Witness ==
    /\ pc = "play"
    /\ turns = 2
    /\ InBounds(row, col)
    /\ board[row][col] = 0
    /\ Len(calls) > 4
    /\ prev_dug # {}
    /\ Hazards # {}
    /\ Cardinality(wl) = 1

\* C18: while make_new_board plants, bombs_planted is the number of cells
\* holding a bomb and the draw maps to a cell of the grid; a colliding
\* draw changes neither the board nor the count; as long as a bomb is
\* planted and one is missing a colliding draw is possible (so no number
\* of retries is the last); and with a fair random source the loop ends
\* for every 0 <= num_bombs <= dimension_size^2.
C18_RejectionSampling ==
    /\ [](pc = "make_new_board" /\ dimension_size >= 1
            => /\ bombs_planted = Cardinality(Hazards)
               /\ loc \in 0 .. (dimension_size * dimension_size - 1)
               /\ InBounds(loc \div dimension_size, loc % dimension_size)
               /\ (0 < bombs_planted /\ bombs_planted < num_bombs)
                     => ENABLED PlantCollision)
    /\ [][(collided' /\ pc' = "make_new_board")
            => UNCHANGED <<board, bombs_planted>>]_vars
    /\ (/\ dimension_size >= 1
        /\ 0 <= num_bombs
        /\ num_bombs <= dimension_size * dimension_size) ~> (pc = "play")

C18_Witness ==
    /\ pc = "make_new_board"
    /\ collided
    /\ dimension_size = 3
    /\ num_bombs = 9
    /\ bombs_planted = 8

\* C19: after a loss every cell is in the dug set and is shown; no other
\* step than the one that declares the loss changes the dug set otherwise
\* than by the cells a dig ran on, and the loss is declared only after a
\* dig returned False.
C19_RevealAllOnlyAfterLoss ==
    /\ [](pc = "lost"
            => /\ dug = Cells(dimension_size)
               /\ Cardinality(dug) = dimension_size * dimension_size
               /\ \A x \in Cells(dimension_size) : screen[x[1]][x[2]] # " ")
    /\ [][(pc' # "lost")
            => \/ dug' = dug
               \/ (turns' = turns + 1 /\ dug' = dug \cup CallSet(calls'))]_vars
    /\ [][(pc' = "lost" /\ pc # "lost") => (pc = "break" /\ ~safe)]_vars

C19_Witness ==
    /\ pc = "lost"
    /\ turns = 1
    /\ dimension_size = 3
    /\ prev_dug = {}
    /\ Cardinality(dug) = 9
    /\ screen[0][0] = "*"

\* C20: a dig of an in-bounds cell that is not revealed adds to the
\* revealed cells, a dig of a revealed cell adds none, as long as no bomb
\* is revealed at most dimension_size^2 - num_bombs cells are, and a
\* player who only ever digs in-bounds unrevealed cells has the game over
\* after at most dimension_size^2 - num_bombs digs.
C20_GameProgress ==
    LET goal == dimension_size * dimension_size - num_bombs
        last == <<row, col>>
    IN  /\ (AfterDig /\ InBounds(row, col) /\ last \notin prev_dug)
              => Cardinality(Revealed(dug)) > Cardinality(Revealed(prev_dug))
        /\ (AfterDig /\ InBounds(row, col) /\ last \in prev_dug)
              => Revealed(dug) = Revealed(prev_dug)
        /\ (Constructed /\ pc # "lost" /\ Hazards \cap dug = {})
              => Cardinality(Revealed(dug)) <= goal
        /\ (Constructed /\ turns = fresh_digs)
              => /\ turns <= goal
                 /\ (turns = goal /\ pc = "play")
                       => ~(Cardinality(dug) < goal)

C20_Witness ==
    /\ pc = "won"
    /\ dimension_size = 2
    /\ num_bombs = 2
    /\ turns = 2
    /\ fresh_digs = 2
    /\ Cardinality(dug) = 2

====
